---- MODULE Spec2Model ----
(***************************************************************************)
(* orgcal: one-way synchronisation of org-mode headings into a CalDAV      *)
(* calendar.  The model follows src/main.py (main, process_calendar),      *)
(* src/cache.py (read_cache_file, write_cache_file) and src/events.py      *)
(* (Event.save_to_calendar, update_remote_event, from_ical,                *)
(* compare_events).                                                        *)
(*                                                                         *)
(* Values.  A datetime/date is an integer instant, a timedelta an integer  *)
(* number of minutes; Python's None is NoDuration for a duration, NoDtend  *)
(* for a missing DTEND, NoRRule for a missing RRULE and None for a missing *)
(* uid.  A uid is a tuple: <<"id", s>> for an :ID: property s, and         *)
(* <<"uuid4", ...>> for a synthesised one.                                 *)
(***************************************************************************)
EXTENDS Integers, Sequences, FiniteSets, TLC

\* ------------------------------------------------------------------ bounds
MaxEvents == 2      \* Events derived from the org files of one run
MaxRuns == 2        \* invocations of main
MaxFailures == 1    \* failures injected by the collaborators (remote, files)
                    \* and interrupts sent by the user
MaxNodes == 2       \* headings handed to Event.from_org in one derivation
MaxInterval == 1    \* the number of a repeater cookie is in 0..MaxInterval

\* --------------------------------------------------------------- constants
None == <<>>
NoDuration == -1
NoDtend == -1
NoRRule == [freq |-> "", interval |-> 0, count |-> 0]

\* config['calendars']: the ids of the configured calendars, in order
Calendars == <<"calA", "calB">>

\* cache.py: _CACHE_DIR
CacheDir == ".orgcal_cache"

\* ------------------------------------------------------------ Event values
\* The dataclass Event, restricted to the fields process_calendar and the
\* calendar port read.
MkEvent(uid, title, description, scheduled, duration, freq, interval, count, tags) ==
    [uid |-> uid, title |-> title, description |-> description,
     scheduled |-> scheduled, duration |-> duration,
     recurrence_freq |-> freq, recurrence_interval |-> interval,
     recurrence_count |-> count, tags |-> tags]

\* The Events the org files can yield (what Event.from_org produced for the
\* headings): a heading with Effort 30 and no :ID:; a heading of the same
\* title and schedule with a body and a TODO state; a heading with an :ID:
\* and no Effort (effort defaults to 0: duration timedelta(0)); another
\* heading with the same :ID:, scheduled earlier, with Effort 30.
EventPool ==
    { MkEvent(None, "a", "", 1, 30, "", 0, 0, <<>>),
      MkEvent(None, "a", "x", 1, 30, "", 0, 0, <<"todo">>),
      MkEvent(<<"id", "h1">>, "b", "", 2, 0, "", 0, 0, <<>>),
      MkEvent(<<"id", "h1">>, "c", "", 1, 30, "", 0, 0, <<>>) }

RECURSIVE SeqsUpTo(_, _)
SeqsUpTo(S, n) ==
    IF n = 0 THEN { <<>> }
    ELSE LET shorter == SeqsUpTo(S, n - 1)
         IN shorter \cup { Append(s, x) : s \in shorter, x \in S }

\* The Events of the org files, in heading order; no two headings yield the
\* same Event (two may still resolve to the same identity).
Outlines ==
    { s \in SeqsUpTo(EventPool, MaxEvents) :
        \A i, j \in 1..Len(s) : i # j => s[i] # s[j] }

\* ----------------------------------------------------------------- helpers
Range(s) == { s[i] : i \in 1..Len(s) }

RECURSIVE SetToSeq(_)
SetToSeq(S) ==
    IF S = {} THEN <<>>
    ELSE LET x == CHOOSE y \in S : TRUE IN <<x>> \o SetToSeq(S \ {x})

\* list.remove(x): drops the first occurrence
RECURSIVE ListRemove(_, _)
ListRemove(s, x) ==
    IF s = <<>> THEN <<>>
    ELSE IF Head(s) = x THEN Tail(s)
    ELSE <<Head(s)>> \o ListRemove(Tail(s), x)

\* Alphabetical rank of a tag (str comparison of sorted()).
TagRank(t) ==
    CASE t = "" -> 0
      [] t = "Work" -> 1
      [] t = "deadline" -> 2
      [] t = "done" -> 3
      [] t = "todo" -> 4
      [] OTHER -> 5

\* sorted(events, key=lambda event: hash(event.scheduled)): a stable sort;
\* h is hash restricted to the instants in use.  An element is an Event (ev)
\* with the position of its heading in the org files (pos).
RECURSIVE InsertByHash(_, _, _)
InsertByHash(s, x, h) ==
    IF s = <<>> THEN <<x>>
    ELSE IF h[x.ev.scheduled] < h[Head(s).ev.scheduled] THEN <<x>> \o s
    ELSE <<Head(s)>> \o InsertByHash(Tail(s), x, h)

RECURSIVE SortedByHash(_, _)
SortedByHash(s, h) ==
    IF s = <<>> THEN <<>>
    ELSE InsertByHash(SortedByHash(SubSeq(s, 1, Len(s) - 1), h), s[Len(s)], h)

\* sorted(tags)
RECURSIVE InsertTag(_, _)
InsertTag(s, x) ==
    IF s = <<>> THEN <<x>>
    ELSE IF TagRank(x) < TagRank(Head(s)) THEN <<x>> \o s
    ELSE <<Head(s)>> \o InsertTag(Tail(s), x)

RECURSIVE SortedTags(_)
SortedTags(s) ==
    IF s = <<>> THEN <<>>
    ELSE InsertTag(SortedTags(SubSeq(s, 1, Len(s) - 1)), s[Len(s)])

FilterNonEmpty(s) == SelectSeq(s, LAMBDA t : t # "")

\* ------------------------------------------------------- src/events.py
\* The remote record (the VEVENT behind a caldav CalendarObjectResource).
MkRecord(uid, summary, description, categories, rrule, dtstart, dtend) ==
    [uid |-> uid, summary |-> summary, description |-> description,
     categories |-> categories, rrule |-> rrule,
     dtstart |-> dtstart, dtend |-> dtend]

\* Event.save_to_calendar: the arguments of calendar.save_event.  The rrule
\* is passed only when frequency and interval are both truthy, the count only
\* when truthy; dtend is passed only when it differs from dtstart.
SaveEventRecord(e) ==
    LET rrule == IF e.recurrence_freq # "" /\ e.recurrence_interval # 0
                 THEN [freq |-> e.recurrence_freq,
                       interval |-> e.recurrence_interval,
                       count |-> e.recurrence_count]
                 ELSE NoRRule
        dtend == IF e.duration # NoDuration /\ e.duration # 0
                 THEN e.scheduled + e.duration
                 ELSE e.scheduled
    IN MkRecord(e.uid, e.title, e.description, e.tags, rrule, e.scheduled,
                IF e.scheduled = dtend THEN NoDtend ELSE dtend)

\* Event.from_ical: the comparable fields read back from a remote record.
FromIcal(r) ==
    MkEvent(r.uid, r.summary, r.description, r.dtstart,
            IF r.dtend # NoDtend THEN r.dtend - r.dtstart ELSE NoDuration,
            r.rrule.freq, r.rrule.interval, r.rrule.count,
            SortedTags(FilterNonEmpty(r.categories)))

\* Event.compare_events
CompareEvents(event1, event2) ==
    /\ event1.title = event2.title
    /\ event1.scheduled = event2.scheduled
    /\ event1.duration = event2.duration
    /\ event1.description = event2.description
    /\ event1.recurrence_freq = event2.recurrence_freq
    /\ event1.recurrence_interval = event2.recurrence_interval
    /\ event1.recurrence_count = event2.recurrence_count
    /\ event1.tags = event2.tags

\* A comparison that looks at the title only.
CompareWithIcalTitleOnly(e, remote_event) == e.title = FromIcal(remote_event).title

\* Event.compare_with_ical
CompareWithIcal(e, remote_event) == CompareEvents(e, FromIcal(remote_event))

\* Event.update_remote_event, up to remote_event.save(): ical['DTEND'] of a
\* record stored without DTEND raises KeyError before the save; otherwise
\* the record that save() sends.  RRULE is not touched.
UpdateRaisesKeyError(remote_event) == remote_event.dtend = NoDtend

UpdatedRecord(e, remote_event) ==
    LET dtend == IF e.duration # NoDuration /\ e.duration # 0
                 THEN e.scheduled + e.duration
                 ELSE e.scheduled
    IN [remote_event EXCEPT
          !.summary = e.title,
          !.description = e.description,
          !.categories = e.tags,
          !.dtstart = e.scheduled,
          !.dtend = IF e.scheduled = dtend THEN NoDtend ELSE dtend]

\* -------------------------------------------------------- src/cache.py
\* A path of the cache directory: the directory, the stem and the extension.
NoFile == [exists |-> FALSE, cache |-> <<>>]
FileOf(cache) == [exists |-> TRUE, cache |-> cache]

\* process_calendar: cache_filename = f'{calendar_id}.bin'
CacheFilename(calendar_id) == [stem |-> calendar_id, ext |-> "bin"]

\* A read that accepts every existing file.
ReadCacheFileAnyExtension(filename, fs) ==
    IF ~fs[filename.stem].exists THEN NoFile ELSE fs[filename.stem]

\* read_cache_file: None (here NoFile) when the file does not exist or when
\* `not full_filename.endswith('.yaml') or full_filename.endswith('.yml')`.
ReadCacheFile(filename, fs) ==
    LET full_filename == [dir |-> CacheDir, stem |-> filename.stem, ext |-> filename.ext]
    IN IF ~fs[full_filename.stem].exists THEN NoFile
       ELSE IF (~(full_filename.ext = "yaml")) \/ full_filename.ext = "yml" THEN NoFile
       ELSE fs[full_filename.stem]

\* ------------------------------------------------------- src/main.py
\* A digest that also covers the description.
SynthUidWithDescription(calendar_id, e) ==
    <<"uuid4", calendar_id, e.title, e.scheduled,
      e.recurrence_freq, e.recurrence_interval, e.recurrence_count,
      e.description>>

\* process_calendar, lines 69-74: the uid synthesised from hash_str.  SHA-256
\* is collision resistant: the digest is represented by the tuple it hashes.
SynthUid(calendar_id, e) ==
    <<"uuid4", calendar_id, e.title, e.scheduled,
      e.recurrence_freq, e.recurrence_interval, e.recurrence_count>>

ResolveUid(calendar_id, e) ==
    IF e.uid = None THEN SynthUid(calendar_id, e) ELSE e.uid

\* process_calendar, lines 82-91: the entry of new_cache
CacheEntry(e) ==
    [title |-> e.title, scheduled |-> e.scheduled, duration |-> e.duration,
     description |-> e.description, recurrence_freq |-> e.recurrence_freq,
     recurrence_interval |-> e.recurrence_interval,
     recurrence_count |-> e.recurrence_count, tags |-> e.tags]

\* ------------------------------------------- src/events.py: from_org
\* An instant of the org files is a number of minutes; a date is the instant
\* of its midnight.  None for a start, an end or Event.scheduled is NoInstant.
NoInstant == -1
MinutesPerDay == 1440
MinutesPerHour == 60

At(day, hour, minute) == day * MinutesPerDay + hour * MinutesPerHour + minute

\* datetime.hour
Hour(t) == (t % MinutesPerDay) \div MinutesPerHour

\* An element of a tuple or a character of a str: a str or an int.
StrItem(s) == [isint |-> FALSE, s |-> s, n |-> 0]
IntItem(n) == [isint |-> TRUE, s |-> "", n |-> n]

\* OrgDate._repeater: None, or the tuple (prefix, number, unit) of the
\* repeater cookie.
NoRepeater == <<>>
Repeater(prefix, n, unit) == <<StrItem(prefix), IntItem(n), StrItem(unit)>>

REPEAT_TO_FREQ ==
    [u \in {"d", "w", "m", "y"} |->
       CASE u = "d" -> "DAILY"
         [] u = "w" -> "WEEKLY"
         [] u = "m" -> "MONTHLY"
         [] u = "y" -> "YEARLY"]

\* Event._get_recurrence, lines 212-228: the loop over the elements of the
\* repeater; st holds plus, interval and the two results.
RECURSIVE ScanRepeater(_, _, _)
ScanRepeater(repeater, i, st) ==
    IF i > Len(repeater) THEN st
    ELSE LET char == repeater[i]
             next ==
               IF ~char.isint /\ char.s = " "
               THEN [st EXCEPT !.plus = FALSE, !.interval = FALSE]
               ELSE IF st.interval
               THEN IF ~char.isint /\ char.s \in DOMAIN REPEAT_TO_FREQ
                    THEN [st EXCEPT !.recurrence_freq = REPEAT_TO_FREQ[char.s]]
                    ELSE [st EXCEPT !.recurrence_freq = "",
                                    !.recurrence_interval = 0]
               ELSE IF st.plus
               THEN IF char.isint
                    THEN [st EXCEPT !.recurrence_interval = char.n,
                                    !.interval = TRUE]
                    ELSE st
               ELSE IF ~char.isint /\ char.s = "+"
                    THEN [st EXCEPT !.plus = TRUE]
                    ELSE st
         IN ScanRepeater(repeater, i + 1, next)

\* Event._get_recurrence
GetRecurrence(repeater) ==
    LET st0 == [plus |-> FALSE, interval |-> FALSE,
                recurrence_freq |-> "", recurrence_interval |-> 0]
        st == IF repeater # NoRepeater /\ Len(repeater) = 3
              THEN ScanRepeater(repeater, 1, st0)
              ELSE st0
    IN [freq |-> st.recurrence_freq, interval |-> st.recurrence_interval,
        count |-> 0]

\* An orgparse OrgDate as from_org reads it: its class, start and end (each
\* a date or a datetime, or None) and its repeater.
OrgDate(cls, start, start_is_datetime, end, end_is_datetime, repeater) ==
    [cls |-> cls, start |-> start, start_is_datetime |-> start_is_datetime,
     end |-> end, end_is_datetime |-> end_is_datetime, repeater |-> repeater]

EmptyDate(cls) == OrgDate(cls, NoInstant, FALSE, NoInstant, FALSE, NoRepeater)

\* `if node.scheduled`, `if node.deadline`: an OrgDate is truthy when it has
\* a start.
OrgDateBool(d) == d.start # NoInstant

\* `node.scheduled != node.deadline`, line 140.  OrgDate.__eq__: two dates
\* without start are equal; otherwise the right operand has to be an instance
\* of the left operand's class and agree on start and end.  node.scheduled is
\* an OrgDateScheduled, node.deadline an OrgDateDeadline.
OrgDateNe(a, b) ==
    ~ \/ (a.start = NoInstant /\ b.start = NoInstant)
      \/ /\ b.cls = a.cls
         /\ a.start = b.start /\ a.start_is_datetime = b.start_is_datetime
         /\ a.end = b.end /\ a.end_is_datetime = b.end_is_datetime

\* A property value as node.get_property returns it: an int (orgparse turns
\* an 'Effort' property into minutes; the default 0 of line 111), a float
\* (an Effort with seconds) or a str, given by its parts between ':'.
IntEffort(n) == [type |-> "int", n |-> n, parts |-> <<>>]
FloatEffort == [type |-> "float", n |-> 0, parts |-> <<>>]
StrEffort(parts) == [type |-> "str", n |-> 0, parts |-> parts]
Digits(k) == [numeric |-> TRUE, n |-> k]
Letters == [numeric |-> FALSE, n |-> 0]

\* A heading (an orgparse node).  A property is <<>> when absent, else
\* <<value>>; todo is "" when the heading has no TODO keyword; ranges maps
\* "SCHEDULED"/"DEADLINE" to the <..>--<..> range written after that keyword
\* in str(node), <<>> when there is none.
MkNode(heading, body, tags, todo, ID, EFFORT, Effort, scheduled, deadline, ranges) ==
    [heading |-> heading, body |-> body, tags |-> tags, todo |-> todo,
     ID |-> ID, EFFORT |-> EFFORT, Effort |-> Effort,
     scheduled |-> scheduled, deadline |-> deadline, ranges |-> ranges]

NoRanges == [prop \in {"SCHEDULED", "DEADLINE"} |-> <<>>]

\* utils.py: _DEFAULT_TODO_KEYWORDS, _DEFAULT_PRIORITIES (as cookies)
DEFAULT_TODO_KEYWORDS == {"NEXT", "RUNNING", "PAUSED", "WAIT", "CANCELLED", "DELEGATED"}
DEFAULT_PRIORITIES == {"[#A]", "[#B]", "[#C]", "[#D]", "[#E]", "[#F]", "[#G]"}

\* utils.py: clean_up_heading.  A heading text is its first word and the
\* rest; a first word that is a keyword or a priority cookie is removed.
CleanUpHeading(heading) ==
    IF heading.first \in DEFAULT_TODO_KEYWORDS \cup DEFAULT_PRIORITIES
    THEN heading.rest
    ELSE IF heading.first = "" THEN heading.rest
    ELSE heading.first \o " " \o heading.rest

\* str.strip().lower() of a TODO keyword
Lower(t) ==
    CASE t = "TODO" -> "todo"
      [] t = "DONE" -> "done"
      [] OTHER -> t

\* from_org, lines 110-111
EffortOf(node) ==
    LET effort_key == IF node.EFFORT # <<>> THEN "EFFORT" ELSE "Effort"
        property == IF effort_key = "EFFORT" THEN node.EFFORT ELSE node.Effort
    IN IF property = <<>> THEN IntEffort(0) ELSE property[1]

\* Event._get_duration; raised: int() of a part that is no number raised
\* ValueError.
GetDuration(node, effort, time, prop) ==
    IF /\ time.end # NoInstant /\ time.end_is_datetime
       /\ time.start # NoInstant /\ time.start_is_datetime
    THEN LET start == time.start
             end == IF Hour(time.end) < Hour(start)
                    THEN time.end + MinutesPerDay
                    ELSE time.end
         IN [raised |-> FALSE, value |-> end - start]
    ELSE LET date_list == node.ranges[prop]
             range == IF /\ date_list # <<>>
                         /\ date_list[1] # NoInstant /\ date_list[2] # NoInstant
                      THEN date_list[2] - date_list[1]
                      ELSE NoDuration
         IN IF range # NoDuration THEN [raised |-> FALSE, value |-> range]
            ELSE IF effort.type = "int"
            THEN [raised |-> FALSE, value |-> effort.n]
            ELSE IF effort.type = "str" /\ Len(effort.parts) >= 2
            THEN IF effort.parts[1].numeric /\ effort.parts[2].numeric
                 THEN [raised |-> FALSE,
                       value |-> effort.parts[1].n * MinutesPerHour + effort.parts[2].n]
                 ELSE [raised |-> TRUE, value |-> NoDuration]
            ELSE [raised |-> FALSE, value |-> NoDuration]

\* from_org, lines 85-107: the Event before the schedule is looked at; its
\* tags field names the list object ref.
NewSelf(node, ref) ==
    LET title == CleanUpHeading(node.heading)
    IN MkEvent(IF node.ID = <<>> THEN None ELSE <<"id", node.ID[1]>>,
               IF node.todo = "DONE" THEN "Done: " \o title ELSE title,
               node.body, NoInstant, NoDuration, "", 0, 0, ref)

\* from_org, lines 101-105: the new list object
NewTags(node) ==
    LET tags == FilterNonEmpty(SetToSeq(node.tags))
    IN IF node.todo # "" THEN Append(tags, Lower(node.todo)) ELSE tags

\* ------------------------------------------------------------------ state
VARIABLES
    outline,        \* the Events the edited org files yield, in heading order
    files,          \* the cache directory: calendar id -> file
    remote,         \* the remote store: calendar id -> (uid -> record)
    run,            \* invocations of main so far
    pc,             \* position of the running invocation
    ci,             \* main: index of the calendar in config['calendars']
    hashkey,        \* hash() of this process, on the instants in use
    events,         \* process_calendar: events (each with its heading position)
    idx,            \* process_calendar: the loop index i + 1
    old_cache, old_events, new_cache, processed_uids,
    processed,      \* heading positions of the Events that passed the uid check
    trace,          \* calls made by the current process_calendar, in order
    start_file,     \* the cache file as process_calendar found it
    start_remote,   \* the remote calendar as process_calendar found it
    failures,       \* failures injected so far
    called,         \* calendars the latest main called process_calendar for
    hist,           \* calendar id -> what its latest process_calendar did
    fresh           \* calendar id -> org files unchanged since that run

\* The derivation of Events from headings (process_calendar, lines 26-29,
\* over Event.from_org).
VARIABLES
    nodes,          \* the headings load_all_headings_from_mixed_list returned
    ni,             \* index of the heading whose generator is being consumed
    gpc,            \* position of that generator
    self,           \* from_org: the Event under construction
    heap,           \* the tag list objects, one per heading: id -> list
    derived,        \* the Events yielded so far (tags: the id of their list)
    opc             \* position of the list comprehension

derivation == <<nodes, ni, gpc, self, heap, derived, opc>>

sync == <<outline, files, remote, run, pc, ci, hashkey, events, idx, old_cache,
          old_events, new_cache, processed_uids, processed, trace, start_file,
          start_remote, failures, called, hist, fresh>>

vars == <<sync, derivation>>

locals == <<events, idx, old_cache, old_events, new_cache, processed_uids, processed>>

CalendarIds == Range(Calendars)
Instants == { e.scheduled : e \in EventPool }
HashKeys == { h \in [Instants -> 1..Cardinality(Instants)] :
                \A a, b \in Instants : a # b => h[a] # h[b] }
IdentityHash == [t \in Instants |-> t]

NoHist == [outcome |-> "never", remote_ok |-> TRUE, failed_writes |-> {},
           saved |-> NoFile]

calendar_id == Calendars[ci]

\* calendar['org_files']: the first calendar reads the org files the user
\* edits, every other calendar a file with one heading that never changes.
FixedOutline == << MkEvent(None, "a", "", 1, 30, "", 0, 0, <<>>) >>
OrgFiles(c) == IF c = Calendars[1] THEN outline ELSE FixedOutline
headings == OrgFiles(calendar_id)

Call(op, uid, result) == <<op, uid, result>>

\* from_org: Event() of line 85 before any heading is read
NoSelf == MkEvent(None, "", "", NoInstant, NoDuration, "", 0, 0, 0)

\* No derivation is going on.
DerivationIdle ==
    /\ nodes = <<>>
    /\ ni = 1
    /\ gpc = "start"
    /\ self = NoSelf
    /\ heap = <<>>
    /\ derived = <<>>
    /\ opc = "idle"

Init ==
    /\ DerivationIdle
    /\ outline \in Outlines
    /\ files = [c \in CalendarIds |-> NoFile]
    /\ remote = [c \in CalendarIds |-> <<>>]
    /\ run = 0
    /\ pc = "idle"
    /\ ci = 1
    /\ hashkey = IdentityHash
    /\ events = <<>>
    /\ idx = 1
    /\ old_cache = <<>>
    /\ old_events = <<>>
    /\ new_cache = <<>>
    /\ processed_uids = {}
    /\ processed = <<>>
    /\ trace = <<>>
    /\ start_file = NoFile
    /\ start_remote = <<>>
    /\ failures = 0
    /\ called = {}
    /\ hist = [c \in CalendarIds |-> NoHist]
    /\ fresh = [c \in CalendarIds |-> FALSE]

\* The user edits the org files between two invocations (the edits made
\* between two invocations are one step).
EditOutline ==
    /\ UNCHANGED derivation
    /\ pc = "idle"
    /\ run >= 1
    /\ run < MaxRuns
    /\ \E c \in CalendarIds : fresh[c]
    /\ outline' \in Outlines \ {outline}
    /\ fresh' = [c \in CalendarIds |-> FALSE]
    /\ UNCHANGED <<files, remote, run, pc, ci, hashkey, locals, trace,
                   start_file, start_remote, failures, called, hist>>

\* main, lines 146-152: read_config_file returns the config or None.
MainStart ==
    /\ UNCHANGED derivation
    /\ pc = "idle"
    /\ run < MaxRuns
    /\ run' = run + 1
    /\ called' = {}
    /\ \E config_ok \in BOOLEAN, h \in HashKeys :
         /\ hashkey' = h
         /\ IF config_ok
            THEN /\ pc' = "main" /\ ci' = 1 /\ UNCHANGED failures
            ELSE /\ failures < MaxFailures
                 /\ failures' = failures + 1
                 /\ pc' = "idle" /\ UNCHANGED ci
    /\ UNCHANGED <<outline, files, remote, locals, trace, start_file,
                   start_remote, hist, fresh>>

\* main, lines 153-154: the next calendar, or the end of the loop.
MainLoop ==
    /\ UNCHANGED derivation
    /\ pc = "main"
    /\ IF ci <= Len(Calendars)
       THEN /\ pc' = "load"
            /\ trace' = <<>>
            /\ start_file' = files[calendar_id]
            /\ start_remote' = remote[calendar_id]
            /\ called' = called \cup {calendar_id}
            /\ UNCHANGED <<ci, hashkey, locals, hist>>
       ELSE /\ pc' = "idle"
            /\ ci' = 1
            /\ hashkey' = IdentityHash
            /\ UNCHANGED <<locals, trace, start_file, start_remote, called, hist>>
    /\ UNCHANGED <<outline, files, remote, run, failures, fresh>>

\* process_calendar, lines 25-31: the headings are loaded, the Events derived
\* and sorted by hash(event.scheduled); the load or a derivation may raise.
\* As written, line 28 passes one argument to
\* load_all_headings_from_mixed_list(mixed_list, cutoff_date) (utils.py:193)
\* and raises TypeError: that is the raising branch.  The other branch is the
\* call with its cutoff date supplied; everything below line 31 is modelled
\* under it.
LoadEvents ==
    /\ UNCHANGED derivation
    /\ pc = "load"
    /\ \/ /\ events' = SortedByHash(
                 [i \in 1..Len(headings) |-> [ev |-> headings[i], pos |-> i]],
                 hashkey)
          /\ pc' = "cache"
          /\ UNCHANGED failures
       \/ /\ failures < MaxFailures
          /\ failures' = failures + 1
          /\ pc' = "raised"
          /\ UNCHANGED events
    /\ UNCHANGED <<outline, files, remote, run, ci, hashkey, idx, old_cache,
                   old_events, new_cache, processed_uids, processed, trace,
                   start_file, start_remote, called, hist, fresh>>

\* A write that adds to the entries the file already holds.
WriteCacheFileMerged(filename, data, fs) ==
    [fs EXCEPT ![filename.stem] = FileOf(data @@ fs[filename.stem].cache)]

\* write_cache_file(filename, {'cache': data}): open(..., 'w') replaces the
\* file.
WriteCacheFile(filename, data, fs) == [fs EXCEPT ![filename.stem] = FileOf(data)]

\* process_calendar, lines 33-43: the cache is read; when read_cache_file
\* returns None an empty cache is written at once.
ReadCache ==
    /\ UNCHANGED derivation
    /\ pc = "cache"
    /\ LET cache_filename == CacheFilename(calendar_id)
           cache_file == ReadCacheFile(cache_filename, files)
       IN IF ~cache_file.exists
          THEN /\ files' = WriteCacheFile(cache_filename, <<>>, files)
               /\ trace' = Append(trace, Call("write_cache", None, "empty"))
               /\ old_cache' = <<>>
               /\ old_events' = <<>>
          ELSE /\ old_cache' = cache_file.cache
               /\ old_events' = SetToSeq(DOMAIN cache_file.cache)
               /\ UNCHANGED <<files, trace>>
    /\ new_cache' = <<>>
    /\ pc' = "connect"
    /\ UNCHANGED <<outline, remote, run, ci, hashkey, events, idx,
                   processed_uids, processed, start_file, start_remote,
                   failures, called, hist, fresh>>

\* process_calendar, lines 54-65: the client is opened and the calendar
\* resolved; DAVClient may raise, client.calendar may return a falsy value.
Connect ==
    /\ UNCHANGED derivation
    /\ pc = "connect"
    /\ \/ /\ pc' = "loop"
          /\ UNCHANGED failures
       \/ /\ failures < MaxFailures
          /\ failures' = failures + 1
          /\ pc' \in {"returned_early", "raised"}
    /\ processed_uids' = {}
    /\ idx' = 1
    /\ UNCHANGED <<outline, files, remote, run, ci, hashkey, events, old_cache,
                   old_events, new_cache, processed, trace, start_file,
                   start_remote, called, hist, fresh>>

RemoveKey(f, k) == [x \in DOMAIN f \ {k} |-> f[x]]

\* No handler around the loop iteration.
LoopReraisesException == FALSE

\* process_calendar, line 121: `except Exception` around one loop iteration.
\* TRUE: an exception of the iteration is logged and the loop goes on.
LoopCatchesException == TRUE

\* process_calendar, lines 77-78: the uid was already consumed in this run
IsDuplicate(uid, seen) == uid \in seen

\* process_calendar, lines 95-101: the uid is in the loaded cache with an
\* equal entry
SkipCached(uid, entry, oldc, olde) ==
    uid \in Range(olde) /\ oldc[uid] = entry

\* process_calendar, lines 103-112: the lookup and the write it decides.
\* Every remote call either succeeds or fails; a failed lookup or a failed
\* write raises (or, for PutError, is logged inside the Event method).
RemoteStep(event) ==
    LET uid == event.uid
        cal == remote[calendar_id]
    IN
    \/ /\ uid \in DOMAIN cal
       /\ CompareWithIcal(event, cal[uid])
       /\ trace' = Append(trace, Call("lookup", uid, "found"))
       /\ pc' = pc
       /\ UNCHANGED <<remote, failures>>
    \/ /\ uid \in DOMAIN cal
       /\ ~CompareWithIcal(event, cal[uid])
       /\ UpdateRaisesKeyError(cal[uid])
       /\ trace' = trace \o <<Call("lookup", uid, "found"),
                              Call("update", uid, "KeyError")>>
       /\ pc' = IF LoopCatchesException THEN pc ELSE "raised"
       /\ UNCHANGED <<remote, failures>>
    \/ /\ uid \in DOMAIN cal
       /\ ~CompareWithIcal(event, cal[uid])
       /\ ~UpdateRaisesKeyError(cal[uid])
       /\ \/ /\ remote' = [remote EXCEPT ![calendar_id][uid] =
                              UpdatedRecord(event, cal[uid])]
             /\ trace' = trace \o <<Call("lookup", uid, "found"),
                                    Call("update", uid, "ok")>>
             /\ pc' = pc
             /\ UNCHANGED failures
          \/ /\ failures < MaxFailures
             /\ failures' = failures + 1
             /\ trace' = trace \o <<Call("lookup", uid, "found"),
                                    Call("update", uid, "failed")>>
             /\ pc' = IF LoopCatchesException THEN pc ELSE "raised"
             /\ UNCHANGED remote
    \/ /\ uid \notin DOMAIN cal
       /\ \/ /\ remote' = [remote EXCEPT ![calendar_id] =
                              (uid :> SaveEventRecord(event)) @@ cal]
             /\ trace' = trace \o <<Call("lookup", uid, "notfound"),
                                    Call("create", uid, "ok")>>
             /\ pc' = pc
             /\ UNCHANGED failures
          \/ /\ failures < MaxFailures
             /\ failures' = failures + 1
             /\ trace' = trace \o <<Call("lookup", uid, "notfound"),
                                    Call("create", uid, "failed")>>
             /\ pc' = IF LoopCatchesException THEN pc ELSE "raised"
             /\ UNCHANGED remote
    \/ /\ failures < MaxFailures
       /\ failures' = failures + 1
       /\ trace' = Append(trace, Call("lookup", uid, "failed"))
       /\ pc' = IF LoopCatchesException THEN pc ELSE "raised"
       /\ UNCHANGED remote

\* process_calendar, lines 66-125: one iteration of the loop over events.
ProcessEvent ==
    /\ UNCHANGED derivation
    /\ pc = "loop"
    /\ idx <= Len(events)
    /\ LET uid == ResolveUid(calendar_id, events[idx].ev)
           event == [events[idx].ev EXCEPT !.uid = uid]
           entry == CacheEntry(event)
       IN /\ events' = [events EXCEPT ![idx].ev = event]
          /\ idx' = idx + 1
          /\ IF IsDuplicate(uid, processed_uids)
             THEN UNCHANGED <<new_cache, processed_uids, processed, old_events,
                              remote, trace, failures, pc>>
             ELSE /\ processed_uids' = processed_uids \cup {uid}
                  /\ processed' = Append(processed, events[idx].pos)
                  /\ new_cache' = (uid :> entry) @@ new_cache
                  /\ old_events' = IF uid \in Range(old_events)
                                   THEN ListRemove(old_events, uid)
                                   ELSE old_events
                  /\ IF SkipCached(uid, entry, old_cache, old_events)
                     THEN /\ trace' = Append(trace, Call("skip", uid, "cached"))
                          /\ UNCHANGED <<remote, failures, pc>>
                     ELSE RemoteStep(event)
    /\ UNCHANGED <<outline, files, run, ci, hashkey, old_cache, start_file,
                   start_remote, called, hist, fresh>>

\* process_calendar, lines 128-131: the loop over the uids left in
\* old_events; fail_at is the index whose delete call raises (0: none).
RECURSIVE DeleteLoop(_, _, _, _, _)
DeleteLoop(uids, cal, tr, fail_at, j) ==
    IF j > Len(uids) THEN [remote |-> cal, trace |-> tr, raised |-> FALSE]
    ELSE IF uids[j] \in DOMAIN cal
    THEN IF fail_at = j
         THEN [remote |-> cal,
               trace |-> tr \o <<Call("lookup", uids[j], "found"),
                                 Call("delete", uids[j], "failed")>>,
               raised |-> TRUE]
         ELSE DeleteLoop(uids, RemoveKey(cal, uids[j]),
                         tr \o <<Call("lookup", uids[j], "found"),
                                 Call("delete", uids[j], "ok")>>,
                         fail_at, j + 1)
    ELSE DeleteLoop(uids, cal,
                    Append(tr, Call("lookup", uids[j], "notfound")),
                    fail_at, j + 1)

\* process_calendar, lines 127-139: the stale uids are deleted remotely, then
\* the new cache is written.  A raising delete leaves process_calendar.
DeleteOldAndPersist ==
    /\ UNCHANGED derivation
    /\ pc = "loop"
    /\ idx > Len(events)
    /\ \E fail_at \in 0..Len(old_events) :
         /\ fail_at > 0 =>
              /\ failures < MaxFailures
              /\ old_events[fail_at] \in DOMAIN remote[calendar_id]
         /\ LET res == DeleteLoop(old_events, remote[calendar_id], trace, fail_at, 1)
            IN /\ remote' = [remote EXCEPT ![calendar_id] = res.remote]
               /\ failures' = IF fail_at > 0 THEN failures + 1 ELSE failures
               /\ IF res.raised
                  THEN /\ pc' = "raised"
                       /\ trace' = res.trace
                       /\ UNCHANGED files
                  ELSE /\ pc' = "returned"
                       /\ files' = WriteCacheFile(CacheFilename(calendar_id),
                                                  new_cache, files)
                       /\ trace' = Append(res.trace,
                                          Call("write_cache", None, "new"))
    /\ UNCHANGED <<outline, run, ci, hashkey, locals, start_file, start_remote,
                   called, hist, fresh>>

Summary(outcome) ==
    [outcome |-> outcome,
     remote_ok |-> \A i \in 1..Len(trace) : trace[i][3] # "failed",
     failed_writes |-> { trace[i][2] : i \in { k \in 1..Len(trace) :
                           trace[k][1] \in {"create", "update"} /\ trace[k][3] = "failed" } },
     saved |-> files[calendar_id]]

\* main, line 153-154: process_calendar returned; the loop takes the next
\* calendar.
ResetLocals ==
    /\ events' = <<>> /\ idx' = 1 /\ old_cache' = <<>> /\ old_events' = <<>>
    /\ new_cache' = <<>> /\ processed_uids' = {} /\ processed' = <<>>
    /\ trace' = <<>> /\ start_file' = NoFile /\ start_remote' = <<>>

Return ==
    /\ UNCHANGED derivation
    /\ pc \in {"returned", "returned_early"}
    /\ hist' = [hist EXCEPT ![calendar_id] = Summary(pc)]
    /\ fresh' = [fresh EXCEPT ![calendar_id] = TRUE]
    /\ ci' = ci + 1
    /\ pc' = "main"
    /\ ResetLocals
    /\ UNCHANGED <<outline, files, remote, run, hashkey, failures, called>>

\* main, lines 156-160: an exception that left process_calendar is logged;
\* the loop over the calendars is abandoned.
MainExcept ==
    /\ UNCHANGED derivation
    /\ pc = "raised"
    /\ hist' = [hist EXCEPT ![calendar_id] = Summary("raised")]
    /\ fresh' = [fresh EXCEPT ![calendar_id] = TRUE]
    /\ pc' = "idle"
    /\ ci' = 1
    /\ hashkey' = IdentityHash
    /\ ResetLocals
    /\ UNCHANGED <<outline, files, remote, run, failures, called>>

Next ==
    \/ EditOutline
    \/ MainStart
    \/ MainLoop
    \/ LoadEvents
    \/ ReadCache
    \/ Connect
    \/ ProcessEvent
    \/ DeleteOldAndPersist
    \/ Return
    \/ MainExcept

Spec == Init /\ [][Next]_vars

\* ------------------------------------------------- the process interrupted
\* The cache of every Event of the list, whether the loop reached it or not.
CacheOfAll(c, evs) ==
    LET uids == { ResolveUid(c, evs[i].ev) : i \in 1..Len(evs) }
    IN [uid \in uids |->
          CacheEntry(evs[CHOOSE i \in 1..Len(evs) :
                               ResolveUid(c, evs[i].ev) = uid].ev)]

\* A handler that saves the cache of all Events before the process ends.
OnKeyboardInterruptSaveAll(fs, c, evs) ==
    WriteCacheFile(CacheFilename(c), CacheOfAll(c, evs), fs)

\* __main__, lines 170-172: the KeyboardInterrupt handler prints a newline
\* and logs; the cache directory stays as it is.
OnKeyboardInterrupt(fs, c, evs) == fs

\* A KeyboardInterrupt between two operations of process_calendar.  It is no
\* Exception: neither line 121 nor line 156 catches it, it ends main.
KeyboardInterrupt ==
    /\ UNCHANGED derivation
    /\ pc \in {"load", "cache", "connect", "loop"}
    /\ failures < MaxFailures
    /\ failures' = failures + 1
    /\ pc' = "interrupted"
    /\ files' = OnKeyboardInterrupt(files, calendar_id, events)
    /\ UNCHANGED <<outline, remote, run, ci, hashkey, locals, trace,
                   start_file, start_remote, called, hist, fresh>>

\* __main__, line 172: the process ends.
Exit ==
    /\ UNCHANGED derivation
    /\ pc = "interrupted"
    /\ hist' = [hist EXCEPT ![calendar_id] = Summary("interrupted")]
    /\ fresh' = [fresh EXCEPT ![calendar_id] = TRUE]
    /\ pc' = "idle"
    /\ ci' = 1
    /\ hashkey' = IdentityHash
    /\ ResetLocals
    /\ UNCHANGED <<outline, files, remote, run, failures, called>>

NextInterrupt ==
    \/ Next
    \/ KeyboardInterrupt
    \/ Exit

SpecInterrupt == Init /\ [][NextInterrupt]_vars

\* --------------------------------------- a remote an earlier run filled
\* main.py, lines 81-112: the remote calendar outlives the process.  A run
\* may start on a record that an earlier synchronisation of one heading
\* created with save_to_calendar (events.py, lines 248-280).
SeededRemote(e) ==
    [c \in CalendarIds |->
        IF c = Calendars[1]
        THEN (ResolveUid(c, e) :> SaveEventRecord(e))
        ELSE <<>>]

InitSeeded ==
    /\ DerivationIdle
    /\ outline \in Outlines
    /\ files = [c \in CalendarIds |-> NoFile]
    /\ \E e \in EventPool : remote = SeededRemote(e)
    /\ run = 0
    /\ pc = "idle"
    /\ ci = 1
    /\ hashkey = IdentityHash
    /\ events = <<>>
    /\ idx = 1
    /\ old_cache = <<>>
    /\ old_events = <<>>
    /\ new_cache = <<>>
    /\ processed_uids = {}
    /\ processed = <<>>
    /\ trace = <<>>
    /\ start_file = NoFile
    /\ start_remote = <<>>
    /\ failures = 0
    /\ called = {}
    /\ hist = [c \in CalendarIds |-> NoHist]
    /\ fresh = [c \in CalendarIds |-> FALSE]

SpecSeeded == InitSeeded /\ [][Next]_vars

\* ------------------------------------------------- the load as written
\* utils.py, lines 193-195: the parameters of
\* load_all_headings_from_mixed_list, none with a default.
LoadHeadingsParameters == <<"mixed_list", "cutoff_date">>

\* main.py, line 28: the arguments of the call.
LoadHeadingsArguments == <<"calendar['org_files']">>

\* A call binds when every parameter without default gets an argument;
\* otherwise Python raises TypeError.
CallBinds(parameters, arguments) == Len(arguments) = Len(parameters)

\* process_calendar, lines 25-31, with the call of line 28 as it is written.
LoadEventsAsWritten ==
    /\ UNCHANGED derivation
    /\ pc = "load"
    /\ IF CallBinds(LoadHeadingsParameters, LoadHeadingsArguments)
       THEN /\ events' = SortedByHash(
                   [i \in 1..Len(headings) |-> [ev |-> headings[i], pos |-> i]],
                   hashkey)
            /\ pc' = "cache"
       ELSE /\ pc' = "raised"
            /\ UNCHANGED events
    /\ UNCHANGED <<outline, files, remote, run, ci, hashkey, idx, old_cache,
                   old_events, new_cache, processed_uids, processed, trace,
                   start_file, start_remote, failures, called, hist, fresh>>

\* The program as written: the TypeError of line 28 leaves process_calendar
\* in every run, so no step of lines 33-139 is ever taken.
NextAsWritten ==
    \/ EditOutline
    \/ MainStart
    \/ MainLoop
    \/ LoadEventsAsWritten
    \/ MainExcept

\* A started main keeps executing until it returns.
SpecAsWritten ==
    /\ Init
    /\ [][NextAsWritten]_vars
    /\ WF_vars(MainLoop)
    /\ WF_vars(LoadEventsAsWritten)
    /\ WF_vars(MainExcept)

\* ---------------------------------------------- derivation of the Events
\* The headings Event.from_org is applied to.  process_calendar hands it the
\* headings the loader kept (those with a schedule, utils.py:131); from_org
\* itself takes any heading.
Heading(first, rest) == [first |-> first, rest |-> rest]

DateOnly(cls, day) ==
    OrgDate(cls, At(day, 0, 0), FALSE, NoInstant, FALSE, NoRepeater)
DateTime(cls, day, clock) ==
    OrgDate(cls, At(day, 0, 0) + clock, TRUE, NoInstant, FALSE, NoRepeater)
TimeRange(cls, day, clock_start, clock_end) ==
    OrgDate(cls, At(day, 0, 0) + clock_start, TRUE,
            At(day, 0, 0) + clock_end, TRUE, NoRepeater)

ClockTimes == { At(0, 1, 0), At(0, 10, 15), At(0, 10, 30), At(0, 23, 0) }

Repeaters ==
    { Repeater(prefix, n, unit) :
        prefix \in {"+", "++"}, n \in 0..MaxInterval,
        unit \in {"d", "w", "m", "y", "h"} }

BaseNode ==
    MkNode(Heading("", "a"), "", {}, "", <<>>, <<>>, <<>>,
           DateOnly("OrgDateScheduled", 1), EmptyDate("OrgDateDeadline"),
           NoRanges)

TimedNode ==
    [BaseNode EXCEPT !.scheduled =
        TimeRange("OrgDateScheduled", 1, At(0, 10, 15), At(0, 10, 30))]

RangeNode ==
    [BaseNode EXCEPT !.ranges =
        [NoRanges EXCEPT !["SCHEDULED"] = <<At(1, 0, 0), At(3, 0, 0)>>]]

Efforts ==
    { [f |-> "Effort", v |-> IntEffort(30)],
      [f |-> "Effort", v |-> FloatEffort],
      [f |-> "EFFORT", v |-> StrEffort(<<Digits(1), Digits(30)>>)],
      [f |-> "EFFORT", v |-> StrEffort(<<Letters, Digits(30)>>)],
      [f |-> "EFFORT", v |-> StrEffort(<<Digits(30)>>)] }

WithEffort(node, e) ==
    IF e.f = "Effort" THEN [node EXCEPT !.Effort = <<e.v>>]
    ELSE [node EXCEPT !.EFFORT = <<e.v>>]

NodePool ==
    { BaseNode, TimedNode, RangeNode }
    \cup { WithEffort(BaseNode, e) : e \in Efforts }
    \cup { WithEffort(TimedNode, [f |-> "Effort", v |-> IntEffort(30)]),
           WithEffort(RangeNode, [f |-> "Effort", v |-> IntEffort(30)]) }
    \cup { [BaseNode EXCEPT !.scheduled = DateTime("OrgDateScheduled", 1, c)] :
             c \in {At(0, 10, 15)} }
    \cup { [BaseNode EXCEPT !.scheduled = TimeRange("OrgDateScheduled", 1, c[1], c[2])] :
             c \in { x \in ClockTimes \X ClockTimes : x[1] # x[2] } }
    \cup { [BaseNode EXCEPT !.scheduled.repeater = r] : r \in Repeaters }
    \cup { [BaseNode EXCEPT !.deadline = d] :
             d \in { DateOnly("OrgDateDeadline", 1),
                     DateOnly("OrgDateDeadline", 2),
                     TimeRange("OrgDateDeadline", 2, At(0, 23, 0), At(0, 1, 0)),
                     [DateOnly("OrgDateDeadline", 2) EXCEPT
                        !.repeater = Repeater("+", 1, "w")] } }
    \cup { [BaseNode EXCEPT !.scheduled.repeater = Repeater("+", 1, "d"),
                            !.deadline = DateOnly("OrgDateDeadline", 2)],
           [BaseNode EXCEPT !.scheduled = EmptyDate("OrgDateScheduled"),
                            !.deadline = DateOnly("OrgDateDeadline", 2)],
           [BaseNode EXCEPT !.scheduled = EmptyDate("OrgDateScheduled")],
           [BaseNode EXCEPT !.todo = "TODO", !.body = "x"],
           [BaseNode EXCEPT !.todo = "DONE", !.tags = {"work"}],
           [BaseNode EXCEPT !.tags = {"", "work"},
                            !.deadline = DateOnly("OrgDateDeadline", 2)],
           [BaseNode EXCEPT !.ID = <<"h1">>, !.heading = Heading("NEXT", "b")],
           [BaseNode EXCEPT !.heading = Heading("[#A]", "a")] }
    \cup { [BaseNode EXCEPT !.ID = <<"h1">>,
                            !.deadline = DateOnly("OrgDateDeadline", 2)],
           [BaseNode EXCEPT !.scheduled.repeater = Repeater("+", 1, "d"),
                            !.deadline = [DateOnly("OrgDateDeadline", 2) EXCEPT
                                            !.repeater = Repeater("+", 1, "w")]],
           [BaseNode EXCEPT !.scheduled = EmptyDate("OrgDateScheduled"),
                            !.deadline = [DateOnly("OrgDateDeadline", 2) EXCEPT
                                            !.repeater = Repeater("+", 1, "w")]],
           [BaseNode EXCEPT !.tags = {"Work"}],
           [BaseNode EXCEPT !.tags = {"todo"}, !.todo = "TODO"],
           [BaseNode EXCEPT !.tags = {"deadline"},
                            !.deadline = DateOnly("OrgDateDeadline", 2)] }

NodeLists(n) == SeqsUpTo(NodePool, n)

\* The state of the synchronisation while Events are derived.
SyncIdle ==
    /\ outline = <<>>
    /\ files = [c \in CalendarIds |-> NoFile]
    /\ remote = [c \in CalendarIds |-> <<>>]
    /\ run = 0
    /\ pc = "load"
    /\ ci = 1
    /\ hashkey = IdentityHash
    /\ events = <<>>
    /\ idx = 1
    /\ old_cache = <<>>
    /\ old_events = <<>>
    /\ new_cache = <<>>
    /\ processed_uids = {}
    /\ processed = <<>>
    /\ trace = <<>>
    /\ start_file = NoFile
    /\ start_remote = <<>>
    /\ failures = 0
    /\ called = {}
    /\ hist = [c \in CalendarIds |-> NoHist]
    /\ fresh = [c \in CalendarIds |-> FALSE]

InitOrg ==
    /\ SyncIdle
    /\ nodes \in NodeLists(MaxNodes)
    /\ ni = 1
    /\ gpc = "start"
    /\ self = NoSelf
    /\ heap = <<>>
    /\ derived = <<>>
    /\ opc = "derive"

Yield(event, variant) == [ev |-> event, node |-> ni, variant |-> variant]

\* from_org, lines 85-137: the generator of nodes[ni] runs from its start to
\* the yield of the scheduled Event (or to line 139 when the heading has no
\* schedule).  A ValueError of _get_duration leaves the generator and the
\* list comprehension.
FromOrgScheduled ==
    /\ UNCHANGED sync
    /\ opc = "derive"
    /\ ni <= Len(nodes)
    /\ gpc = "start"
    /\ LET node == nodes[ni]
           effort == EffortOf(node)
           self0 == NewSelf(node, ni)
           tags == NewTags(node)
           duration == GetDuration(node, effort, node.scheduled, "SCHEDULED")
           recurrence == GetRecurrence(node.scheduled.repeater)
           self1 == [self0 EXCEPT
                       !.scheduled = node.scheduled.start,
                       !.duration = duration.value,
                       !.recurrence_freq = recurrence.freq,
                       !.recurrence_interval = recurrence.interval,
                       !.recurrence_count = recurrence.count]
       IN IF ~OrgDateBool(node.scheduled)
          THEN /\ self' = self0
               /\ heap' = Append(heap, tags)
               /\ gpc' = "deadline"
               /\ UNCHANGED <<derived, opc>>
          ELSE IF duration.raised
          THEN /\ self' = [self0 EXCEPT !.scheduled = node.scheduled.start]
               /\ heap' = Append(heap, tags)
               /\ opc' = "raised"
               /\ UNCHANGED <<derived, gpc>>
          ELSE /\ self' = self1
               /\ heap' = Append(heap, SortedTags(tags))
               /\ derived' = Append(derived, Yield(self1, "scheduled"))
               /\ gpc' = "deadline"
               /\ UNCHANGED opc
    /\ UNCHANGED <<nodes, ni>>

\* from_org, lines 139-166: the generator is resumed; it yields the deadline
\* Event, a dataclasses.replace copy of self that shares the tags list, or
\* ends.  The recurrence is read from node.scheduled._repeater (line 158).
FromOrgDeadline ==
    /\ UNCHANGED sync
    /\ opc = "derive"
    /\ ni <= Len(nodes)
    /\ gpc = "deadline"
    /\ LET node == nodes[ni]
           effort == EffortOf(node)
           duration == GetDuration(node, effort, node.deadline, "DEADLINE")
           recurrence == GetRecurrence(node.scheduled.repeater)
           appended == [heap EXCEPT ![ni] = Append(@, "deadline")]
           self2 == [self EXCEPT
                       !.title = self.title \o "!",
                       !.scheduled = node.deadline.start,
                       !.duration = duration.value,
                       !.recurrence_freq = recurrence.freq,
                       !.recurrence_interval = recurrence.interval,
                       !.recurrence_count = recurrence.count]
       IN IF ~(OrgDateBool(node.deadline) /\ OrgDateNe(node.scheduled, node.deadline))
          THEN /\ ni' = ni + 1
               /\ gpc' = "start"
               /\ UNCHANGED <<self, heap, derived, opc>>
          ELSE IF duration.raised
          THEN /\ self' = [self EXCEPT !.title = self.title \o "!",
                                       !.scheduled = node.deadline.start]
               /\ heap' = appended
               /\ opc' = "raised"
               /\ UNCHANGED <<derived, ni, gpc>>
          ELSE /\ self' = self2
               /\ heap' = [appended EXCEPT ![ni] = SortedTags(@)]
               /\ derived' = Append(derived, Yield(self2, "deadline"))
               /\ ni' = ni + 1
               /\ gpc' = "start"
               /\ UNCHANGED opc
    /\ UNCHANGED nodes

\* process_calendar, lines 26-29: every generator is exhausted, the list of
\* Events is complete.
ListComplete ==
    /\ UNCHANGED sync
    /\ opc = "derive"
    /\ ni > Len(nodes)
    /\ opc' = "done"
    /\ UNCHANGED <<nodes, ni, gpc, self, heap, derived>>

NextOrg ==
    \/ FromOrgScheduled
    \/ FromOrgDeadline
    \/ ListComplete

SpecOrg == InitOrg /\ [][NextOrg]_vars

\* The Event an element of the list is: its tags are what its list object
\* holds now.
EventOf(d) == [d.ev EXCEPT !.tags = heap[d.ev.tags]]

\* The Events of heading i in the list.
EventsOfNode(i) == SelectSeq(derived, LAMBDA d : d.node = i)

\* ------------------------------------------------------------ vocabulary
\* The calls of a trace with operation op / for one uid.
CallsOf(tr, op) == SelectSeq(tr, LAMBDA c : c[1] = op)
CallsFor(tr, op, uid) == SelectSeq(tr, LAMBDA c : c[1] = op /\ c[2] = uid)
RemoteCallsFor(tr, uid) ==
    SelectSeq(tr, LAMBDA c : c[1] \notin {"write_cache", "skip"} /\ c[2] = uid)
WriteCallsFor(tr, uid) ==
    SelectSeq(tr, LAMBDA c : c[1] \in {"create", "update"} /\ c[2] = uid)

\* No call of the trace was failed by the remote store.
RemoteSucceeded(tr) == \A i \in 1..Len(tr) : tr[i][3] # "failed"

\* The identities the org files resolve to for the current calendar.
DesiredUids == { ResolveUid(calendar_id, headings[i]) : i \in 1..Len(headings) }

\* process_calendar ran to its last line / the previous process_calendar of
\* this calendar did, on the org files as they are now.
Completed == pc = "returned"
PrevCompleted == hist[calendar_id].outcome = "returned"
OutlineUnchanged == fresh[calendar_id]

\* ------------------------------------------------------------------ claims
\* C1 (as claimed): idempotence.  When process_calendar completes for a
\* calendar whose previous process_calendar completed on the same org files,
\* and no remote call of either run failed, the second run made no create,
\* no update and no delete call.
C1_Idempotence ==
    (/\ Completed
     /\ PrevCompleted
     /\ OutlineUnchanged
     /\ hist[calendar_id].remote_ok
     /\ RemoteSucceeded(trace))
    => /\ CallsOf(trace, "create") = <<>>
       /\ CallsOf(trace, "update") = <<>>
       /\ CallsOf(trace, "delete") = <<>>

\* C2 (as claimed): deletion correctness.  An identity of the snapshot the
\* previous run saved that is no longer desired gets exactly one delete call
\* when the remote store holds it and none when it does not; the new
\* snapshot omits it.
C2_DeletionCorrectness ==
    (/\ Completed
     /\ PrevCompleted
     /\ start_file = hist[calendar_id].saved)
    => \A uid \in DOMAIN hist[calendar_id].saved.cache :
         uid \notin DesiredUids =>
           /\ Len(CallsFor(trace, "delete", uid)) =
                 (IF uid \in DOMAIN start_remote THEN 1 ELSE 0)
           /\ uid \notin DOMAIN files[calendar_id].cache

\* C3 (as claimed): skip-cached.  An Event that passed the uid check, whose
\* identity is in the snapshot found at run start with an entry equal to the
\* Event's, caused no remote call and is in the new snapshot.
C3_SkipCached ==
    pc \in {"loop", "returned"} =>
      \A i \in 1..(idx - 1) :
        LET e == events[i].ev IN
        (/\ events[i].pos \in Range(processed)
         /\ start_file.exists
         /\ e.uid \in DOMAIN start_file.cache
         /\ start_file.cache[e.uid] = CacheEntry(e))
        => /\ RemoteCallsFor(trace, e.uid) = <<>>
           /\ e.uid \in DOMAIN new_cache
           /\ new_cache[e.uid] = CacheEntry(e)

\* C4 (as claimed): deduplication.  Of the Events that resolve to one
\* identity exactly one is processed, the first in heading order.
C4_DedupFirstInInputOrder ==
    Completed =>
      \A i \in 1..Len(headings) :
        (i \in Range(processed)) <=>
          (\A j \in 1..(i - 1) :
             ResolveUid(calendar_id, headings[j]) # ResolveUid(calendar_id, headings[i]))

\* C5: identity stability.  Every Event that went through the uid
\* assignment keeps an explicit identifier unchanged, and two Events without
\* one that agree on title, scheduled and recurrence (frequency, interval,
\* count) carry the same synthesised identity in a calendar, whatever their
\* description and tags.
SameIdentityFields(a, b) ==
    /\ a.title = b.title
    /\ a.scheduled = b.scheduled
    /\ a.recurrence_freq = b.recurrence_freq
    /\ a.recurrence_interval = b.recurrence_interval
    /\ a.recurrence_count = b.recurrence_count

C5_IdentityStability ==
    pc \in {"loop", "returned"} =>
      \A i \in 1..(idx - 1) :
        LET src == headings[events[i].pos] IN
        /\ src.uid # None => events[i].ev.uid = src.uid
        /\ \A j \in 1..(idx - 1) :
             LET other == headings[events[j].pos] IN
             (src.uid = None /\ other.uid = None /\ SameIdentityFields(src, other))
             => events[i].ev.uid = events[j].ev.uid

\* C5 witness: two Events without identifier that differ in description and
\* tags only have both been given their (equal) identity.
C5_Witness ==
    /\ pc = "loop"
    /\ idx = 3
    /\ headings[1].uid = None /\ headings[2].uid = None
    /\ SameIdentityFields(headings[1], headings[2])
    /\ headings[1].description # headings[2].description
    /\ headings[1].tags # headings[2].tags
    /\ events[1].ev.uid = events[2].ev.uid
    /\ events[1].ev.uid # None

\* C6 (as claimed): a completed process_calendar wrote the snapshot file
\* exactly once, as its last call.
C6_SingleWriteAtEnd ==
    Completed =>
      /\ Len(CallsOf(trace, "write_cache")) = 1
      /\ trace[Len(trace)][1] = "write_cache"

\* C7: per-event isolation.  A failed create, update or delete call never
\* makes process_calendar raise; and when the run completes, every desired
\* identity went through the loop, every stale identity of the loaded cache
\* was looked up, and the new snapshot is on disk.
FailedCalls(tr) ==
    SelectSeq(tr, LAMBDA c : c[1] \in {"create", "update", "delete"} /\ c[3] # "ok")

AbortedAtCalendarLevel == pc \in {"returned_early", "raised"}

C8_AbortLeavesSnapshot ==
    AbortedAtCalendarLevel =>
      /\ CallsOf(trace, "write_cache") = <<>>
      /\ files[calendar_id] = start_file

\* C9 (as claimed): when main is over and has called process_calendar at
\* all, it has called it for every configured calendar.
C9_LaterCalendarsStillRun ==
    (pc = "idle" /\ called # {}) => called = CalendarIds

\* C10: retry after a remote failure.  (a) A create or update call that
\* failed leaves the identity in the new snapshot, and in the snapshot file
\* once the run completes, with the Event's content.
\* (b) When the previous completed run of the calendar had a failed create or
\* update for an identity and the org files are unchanged, a run that
\* completes and whose lookup of that identity succeeds issues a create or
\* update call for it again.
LookupFailed(tr, uid) ==
    \E i \in 1..Len(tr) : tr[i] = Call("lookup", uid, "failed")

FailedWriteUids(tr) ==
    { tr[i][2] : i \in { k \in 1..Len(tr) :
                           tr[k][1] \in {"create", "update"} /\ tr[k][3] = "failed" } }

C10_RetryAfterFailure ==
    /\ pc \in {"loop", "returned"} =>
         \A i \in 1..(idx - 1) :
           events[i].ev.uid \in FailedWriteUids(trace) /\ events[i].pos \in Range(processed)
           => /\ events[i].ev.uid \in DOMAIN new_cache
              /\ new_cache[events[i].ev.uid] = CacheEntry(headings[events[i].pos])
              /\ Completed =>
                   /\ events[i].ev.uid \in DOMAIN files[calendar_id].cache
                   /\ files[calendar_id].cache[events[i].ev.uid] =
                         CacheEntry(headings[events[i].pos])
    /\ (Completed /\ PrevCompleted /\ OutlineUnchanged) =>
         /\ \A uid \in hist[calendar_id].failed_writes :
              /\ uid \in DOMAIN hist[calendar_id].saved.cache
              /\ ~LookupFailed(trace, uid) => WriteCallsFor(trace, uid) # <<>>

\* C10 witness: the second of two completed runs on unchanged org files
\* issues the create call again that failed in the first.
C10_Witness ==
    /\ Completed /\ PrevCompleted /\ OutlineUnchanged
    /\ \E uid \in hist[calendar_id].failed_writes :
         /\ uid \in DOMAIN start_file.cache
         /\ WriteCallsFor(trace, uid) # <<>>

\* C11 (as claimed): derivation errors are isolated per heading.  When the
\* derivation is over, every heading with a schedule whose own derivation
\* does not fail has its Events in the list process_calendar goes on with.
DerivationFails(node) ==
    \/ /\ OrgDateBool(node.scheduled)
       /\ GetDuration(node, EffortOf(node), node.scheduled, "SCHEDULED").raised
    \/ /\ OrgDateBool(node.deadline)
       /\ OrgDateNe(node.scheduled, node.deadline)
       /\ GetDuration(node, EffortOf(node), node.deadline, "DEADLINE").raised

C11_DerivationErrorsIsolated ==
    opc \in {"done", "raised"} =>
      \A i \in 1..Len(nodes) :
        (OrgDateBool(nodes[i].scheduled) /\ ~DerivationFails(nodes[i]))
        => (opc = "done" /\ EventsOfNode(i) # <<>>)

\* C12: cancellation safety.  Every step that changes a snapshot file,
\* the steps of an interrupted run included, leaves in it only identities
\* for which the run that writes it has made its skip-cached decision or its
\* lookup.
Attempted(tr) ==
    { tr[i][2] : i \in { k \in 1..Len(tr) :
                           tr[k][1] \in {"skip", "lookup", "create", "update"} } }

C12_CancellationSafety ==
    [][\A c \in CalendarIds :
         files'[c] # files[c] => DOMAIN files'[c].cache \subseteq Attempted(trace')]_vars

\* C12 witness: the process was interrupted in the loop after an Event was
\* reconciled and before another was reached; the snapshot on disk holds no
\* identity the run did not attempt.
C12_Witness ==
    /\ pc = "interrupted"
    /\ idx > 1
    /\ idx <= Len(events)
    /\ Attempted(trace) # {}
    /\ \E uid \in DesiredUids : uid \notin Attempted(trace)
    /\ files[calendar_id].exists
    /\ DOMAIN files[calendar_id].cache \subseteq Attempted(trace)

\* C13 (as claimed): after an update call that returned without failure the
\* remote record is content-equal to the Event.
C13_UpdateCarriesAllFields ==
    pc \in {"loop", "returned"} =>
      \A i \in 1..(idx - 1) :
        LET e == events[i].ev IN
        (/\ events[i].pos \in Range(processed)
         /\ \E k \in 1..Len(trace) : trace[k] = Call("update", e.uid, "ok"))
        => /\ e.uid \in DOMAIN remote[calendar_id]
           /\ CompareEvents(e, FromIcal(remote[calendar_id][e.uid]))

\* C14 (as claimed): from_org yields no Event for a heading with neither
\* schedule nor deadline; the scheduled Event and the deadline Event (title
\* marked with "!", tag "deadline") for a heading whose schedule and deadline
\* differ; only the scheduled Event when they are equal.
SameTimestamp(a, b) ==
    /\ a.start = b.start /\ a.start_is_datetime = b.start_is_datetime
    /\ a.end = b.end /\ a.end_is_datetime = b.end_is_datetime

C14_FromOrgYields ==
    \A i \in 1..(ni - 1) :
      LET node == nodes[i]
          evs == EventsOfNode(i)
          both == OrgDateBool(node.scheduled) /\ OrgDateBool(node.deadline)
      IN /\ (~OrgDateBool(node.scheduled) /\ ~OrgDateBool(node.deadline))
              => evs = <<>>
         /\ (both /\ ~SameTimestamp(node.scheduled, node.deadline))
              => /\ Len(evs) = 2
                 /\ evs[1].variant = "scheduled"
                 /\ evs[2].variant = "deadline"
                 /\ evs[2].ev.title = evs[1].ev.title \o "!"
                 /\ "deadline" \in Range(EventOf(evs[2]).tags)
         /\ (both /\ SameTimestamp(node.scheduled, node.deadline))
              => /\ Len(evs) = 1
                 /\ evs[1].variant = "scheduled"

\* C15 (as claimed): the duration of a yielded Event comes from the start/end
\* time-of-day pair of its timestamp, else from the range notation, else from
\* the declared effort (integer minutes, or H:MM), and is None when the
\* heading carries none of these.
TimestampOf(d) ==
    IF d.variant = "scheduled" THEN nodes[d.node].scheduled
    ELSE nodes[d.node].deadline

PropOf(d) == IF d.variant = "scheduled" THEN "SCHEDULED" ELSE "DEADLINE"

HasClockPair(time) ==
    /\ time.start # NoInstant /\ time.start_is_datetime
    /\ time.end # NoInstant /\ time.end_is_datetime

C15_DurationResolution ==
    \A k \in 1..Len(derived) :
      LET d == derived[k]
          node == nodes[d.node]
          time == TimestampOf(d)
          range == node.ranges[PropOf(d)]
          declared == IF node.EFFORT # <<>> THEN node.EFFORT
                      ELSE node.Effort
      IN IF HasClockPair(time)
         THEN (d.ev.duration - (time.end - time.start)) % MinutesPerDay = 0
         ELSE IF range # <<>>
         THEN d.ev.duration = range[2] - range[1]
         ELSE IF declared = <<>>
         THEN d.ev.duration = NoDuration
         ELSE /\ declared[1].type = "int" => d.ev.duration = declared[1].n
              /\ (declared[1].type = "str" /\ Len(declared[1].parts) = 2)
                   => d.ev.duration = declared[1].parts[1].n * MinutesPerHour
                                      + declared[1].parts[2].n

\* C16 (as claimed): the duration derived from a start/end time-of-day pair
\* is never negative; an end clock time earlier than the start clock time
\* counts as the next day.
ClockOf(t) == t % MinutesPerDay

C16_ClockPairDuration ==
    \A k \in 1..Len(derived) :
      LET d == derived[k]
          time == TimestampOf(d)
      IN HasClockPair(time) =>
           /\ d.ev.duration >= 0
           /\ ClockOf(time.end) < ClockOf(time.start)
                => d.ev.duration = time.end + MinutesPerDay - time.start

\* C17 (as claimed): a repeater +<N><unit> with unit d, w, m or y gives the
\* frequency of the unit with interval N and count 0; every other repeater
\* gives no recurrence; a frequency never comes with an interval below 1.
WellFormedRepeater(r) ==
    /\ r # NoRepeater
    /\ r[1].s = "+"
    /\ r[3].s \in DOMAIN REPEAT_TO_FREQ

C17_RecurrenceDecoding ==
    \A k \in 1..Len(derived) :
      LET d == derived[k]
          r == nodes[d.node].scheduled.repeater
      IN /\ d.variant = "scheduled" =>
              IF WellFormedRepeater(r)
              THEN /\ d.ev.recurrence_freq = REPEAT_TO_FREQ[r[3].s]
                   /\ d.ev.recurrence_interval = r[2].n
                   /\ d.ev.recurrence_count = 0
              ELSE /\ d.ev.recurrence_freq = ""
                   /\ d.ev.recurrence_interval = 0
                   /\ d.ev.recurrence_count = 0
         /\ d.ev.recurrence_freq # "" => d.ev.recurrence_interval >= 1

\* C18: the reconciler's decision.  Every Event that passed the uid check
\* and was not skip-cached caused exactly one lookup; when the lookup
\* answered, the writes for the identity are: one create when it was not
\* found, one update when it was found and is not content-equal, none when
\* it was found and is content-equal; the write follows the lookup.
ContentEqual(e, record) == CompareEvents(e, FromIcal(record))

FirstIndex(tr, op, uid) ==
    CHOOSE k \in 1..Len(tr) : tr[k][1] = op /\ tr[k][2] = uid

C18_ReconcilerDecision ==
    pc \in {"loop", "returned"} =>
      \A i \in 1..(idx - 1) :
        LET e == events[i].ev
            uid == e.uid
            lookups == CallsFor(trace, "lookup", uid)
            creates == CallsFor(trace, "create", uid)
            updates == CallsFor(trace, "update", uid)
        IN (/\ events[i].pos \in Range(processed)
            /\ CallsFor(trace, "skip", uid) = <<>>)
           => /\ Len(lookups) = 1
              /\ Len(creates) + Len(updates) <= 1
              /\ lookups[1][3] = "notfound" =>
                   /\ uid \notin DOMAIN start_remote
                   /\ Len(creates) = 1 /\ updates = <<>>
              /\ lookups[1][3] = "found" =>
                   /\ uid \in DOMAIN start_remote
                   /\ creates = <<>>
                   /\ (Len(updates) = 1) <=> ~ContentEqual(e, start_remote[uid])
              /\ lookups[1][3] = "failed" => (creates = <<>> /\ updates = <<>>)
              /\ creates # <<>> =>
                   FirstIndex(trace, "lookup", uid) < FirstIndex(trace, "create", uid)
              /\ updates # <<>> =>
                   FirstIndex(trace, "lookup", uid) < FirstIndex(trace, "update", uid)

\* C18 witness: a completed run in which one identity was found
\* content-equal and got no write, and another was found different and got
\* its update.
C18_Witness ==
    /\ Completed
    /\ \E u1, u2 \in DesiredUids :
         /\ u1 # u2
         /\ CallsFor(trace, "lookup", u1) = <<Call("lookup", u1, "found")>>
         /\ WriteCallsFor(trace, u1) = <<>>
         /\ CallsFor(trace, "lookup", u2) = <<Call("lookup", u2, "found")>>
         /\ Len(CallsFor(trace, "update", u2)) = 1

\* C19: the snapshot saved at the end of a run.  Its identities are exactly
\* the identities of the desired Events, each with the content of the Event
\* that passed the uid check for it, whatever became of its remote calls; no
\* identity of the snapshot found at the start is carried over.
C19_SnapshotIsDesiredState ==
    Completed =>
      LET saved == files[calendar_id].cache IN
      /\ files[calendar_id].exists
      /\ DOMAIN saved = DesiredUids
      /\ \A k \in 1..Len(processed) :
           saved[ResolveUid(calendar_id, headings[processed[k]])] =
             CacheEntry(headings[processed[k]])
      /\ \A uid \in DOMAIN hist[calendar_id].saved.cache :
           uid \notin DesiredUids => uid \notin DOMAIN saved

\* C19 witness: a completed run whose previous run saved an identity that is
\* no longer desired, and in which a create or update failed; the saved
\* snapshot holds the failed identity and not the stale one.
C19_Witness ==
    /\ Completed
    /\ \E uid \in DOMAIN hist[calendar_id].saved.cache : uid \notin DesiredUids
    /\ DOMAIN files[calendar_id].cache = DesiredUids
    /\ \E uid \in FailedWriteUids(trace) : uid \in DOMAIN files[calendar_id].cache

\* C20 (as claimed): liveness of a run.  A main that has read its
\* configuration and met no failure of a collaborator does not end before
\* process_calendar has completed, snapshot saved, for every configured
\* calendar.
C20_RunCompletes ==
    (pc = "idle" /\ called # {} /\ failures = 0)
      => \A c \in CalendarIds : hist[c].outcome = "returned"

\* C21 (as claimed): deriving the deadline Event of a heading leaves the
\* scheduled Event it already yielded as it was.  Once the generator of a
\* heading is exhausted, the tags of its scheduled Event are the tags it was
\* yielded with, and hold "deadline" only when the heading declares that tag.
YieldedTags(node) == SortedTags(NewTags(node))

C21_ScheduledVariantUnchanged ==
    \A k \in 1..Len(derived) :
      LET d == derived[k]
          node == nodes[d.node]
      IN (d.variant = "scheduled" /\ d.node < ni) =>
           /\ EventOf(d).tags = YieldedTags(node)
           /\ "deadline" \in Range(EventOf(d).tags) => "deadline" \in node.tags

\* C22 (as claimed): the scheduled Event and the deadline Event of one
\* heading resolve to two identities, for every calendar, so that neither is
\* taken for a duplicate of the other by process_calendar, lines 77-78.
C22_VariantsHaveDistinctIdentities ==
    \A i \in 1..(ni - 1) :
      LET evs == EventsOfNode(i) IN
      Len(evs) = 2 =>
        \A c \in CalendarIds :
          LET uid_scheduled == ResolveUid(c, EventOf(evs[1]))
              uid_deadline == ResolveUid(c, EventOf(evs[2]))
          IN /\ uid_scheduled # uid_deadline
             /\ ~IsDuplicate(uid_deadline, {uid_scheduled})
             /\ ~IsDuplicate(uid_scheduled, {uid_deadline})

\* C24 (as claimed): the tag list of every yielded Event is sorted ascending
\* and is a set of lowercase non-empty strings: no empty string, no tag
\* twice, no uppercase character.
IsLowercase(t) == t # "Work"

IsSortedTags(tags) ==
    \A i, j \in 1..Len(tags) : i < j => TagRank(tags[i]) <= TagRank(tags[j])

NoDuplicateTags(tags) ==
    \A i, j \in 1..Len(tags) : i # j => tags[i] # tags[j]

C24_TagsAreSortedLowercaseSet ==
    \A k \in 1..Len(derived) :
      LET tags == EventOf(derived[k]).tags IN
      /\ IsSortedTags(tags)
      /\ NoDuplicateTags(tags)
      /\ \A i \in 1..Len(tags) : tags[i] # "" /\ IsLowercase(tags[i])

\* C25 (as claimed): the recurrence of the deadline Event is decoded from the
\* repeater of the deadline timestamp, whatever the repeater of the schedule
\* is; the derivation does not fail when the schedule has no repeater.
C25_DeadlineRecurrenceFromDeadline ==
    /\ \A k \in 1..Len(derived) :
         LET d == derived[k]
             recurrence == GetRecurrence(nodes[d.node].deadline.repeater)
         IN d.variant = "deadline" =>
              /\ d.ev.recurrence_freq = recurrence.freq
              /\ d.ev.recurrence_interval = recurrence.interval
              /\ d.ev.recurrence_count = recurrence.count
    /\ \A i \in 1..(ni - 1) :
         LET node == nodes[i] IN
         (/\ OrgDateBool(node.deadline)
          /\ OrgDateNe(node.scheduled, node.deadline)
          /\ node.scheduled.repeater = NoRepeater)
         => \E k \in 1..Len(derived) :
              derived[k].node = i /\ derived[k].variant = "deadline"

\* C23 (as claimed): update_remote_event succeeds on a record stored without
\* an end.  When the lookup of an identity finds such a record, the record
\* differs from the Event and the remote store does not fail the update, the
\* update is saved and the record carries the Event's title, description,
\* tags and start.
FoundWithoutEnd(e) ==
    /\ e.uid \in DOMAIN start_remote
    /\ start_remote[e.uid].dtend = NoDtend
    /\ ~CompareWithIcal(e, start_remote[e.uid])
    /\ CallsFor(trace, "lookup", e.uid) = <<Call("lookup", e.uid, "found")>>
    /\ Call("update", e.uid, "failed") \notin Range(trace)

C23_UpdateWithoutEndSucceeds ==
    pc \in {"loop", "returned"} =>
      \A i \in 1..(idx - 1) :
        LET e == events[i].ev IN
        (events[i].pos \in Range(processed) /\ FoundWithoutEnd(e))
        => /\ Call("update", e.uid, "ok") \in Range(trace)
           /\ e.uid \in DOMAIN remote[calendar_id]
           /\ remote[calendar_id][e.uid].summary = e.title
           /\ remote[calendar_id][e.uid].description = e.description
           /\ remote[calendar_id][e.uid].categories = e.tags
           /\ remote[calendar_id][e.uid].dtstart = e.scheduled

====
